---- MODULE Spec2Model ----
(***************************************************************************)
(* A model of kodiak/pull_request.py: the PR object, its cached event, and *)
(* the coroutines PR.mergeability, PR.set_status, PR.notify_pr_creator,    *)
(* PR.delete_label and PR.create_comment.  asyncio runs a coroutine        *)
(* without interruption from one await to the next, so every action below  *)
(* is the completion of one awaited collaborator call followed by the      *)
(* synchronous code up to the next await.  The collaborators (the API      *)
(* client, the policy classifier `mergeable`, the platform's HTTP          *)
(* answers) are the environment: their results are drawn from small sets.  *)
(***************************************************************************)
EXTENDS Integers, Sequences, FiniteSets, TLC

\* ------------------------------------------------------------------ bounds

\* number of calls (mergeability or set_status) made on the PR object in a run
MaxInvocations == 3

\* number of pieces (see Pieces) a markdown text is made of
MaxPieces == 4
\* number of HTML ranges find_html_positions reports for one text
MaxRanges == 2
\* length of a pull request title
MaxTitleLen == 2
\* largest pull request number
MaxNumber == 12

\* ------------------------------------------------------- program constants

\* the status code delete_label compares with (line 353)
DELETE_LABEL_CODE == 204
\* the status code create_comment compares with (line 366)
CREATE_COMMENT_CODE == 200

\* ------------------------------------------------------------ value spaces

\* the tasks that may call methods of the one PR object
Procs == {"t1", "t2"}

\* Python's None where an EventInfoResponse is expected
None == [tag |-> "None"]
\* a config that is not an instance of V1 (a parse or validation error)
InvalidConfig == [tag |-> "InvalidConfig"]

Shas == {"sha1", "sha2"}
Branches == {"feature"}
AUTOMERGE_LABEL == "automerge"

\* config.merge of a valid V1 document: the three options the code reads
MergeConfigs ==
    [notify_on_conflict : BOOLEAN,
     require_automerge_label : BOOLEAN,
     delete_branch_on_merge : BOOLEAN,
     automerge_label : {AUTOMERGE_LABEL}]

\* EventInfoResponse: the fields of the snapshot that pull_request.py reads
Snapshots ==
    [latest_sha : Shas,
     headRefName : Branches,
     isCrossRepository : BOOLEAN,
     head_exists : BOOLEAN,
     config : MergeConfigs \cup {InvalidConfig}]

\* what kodiak.evaluation.mergeable does: return, or raise one of nine errors
Outcomes ==
    {"success", "MissingSkippableChecks", "NotQueueable", "MergeConflict",
     "BranchMerged", "MergeBlocked", "MissingAppID",
     "MissingGithubMergeabilityState", "WaitingForChecks", "NeedsBranchUpdate"}

\* class MergeabilityResponse
MergeabilityResponse ==
    {"OK", "NEEDS_UPDATE", "NEED_REFRESH", "NOT_MERGEABLE", "SKIPPABLE_CHECKS", "WAIT"}

\* status codes the platform may answer a label deletion or a comment post with
StatusCodes == {200, 201, 204, 404}

\* status codes merge_branch and merge_pull_request may answer with
MergeStatusCodes == {200, 299, 300, 301, 409}

IsV1(config) == config # InvalidConfig

\* ------------------------------------------------------------------- state

VARIABLES
    event,         \* PR.event: the snapshot cached on the PR object, or None
    inv,           \* per task: the frame of the call it is running on the PR
    label,         \* platform: the automerge label is on the pull request
    comments,      \* platform: number of comments created on the pull request
    ninv,          \* number of calls started so far
    conflictOnly,  \* history: every call so far was a mergeability call whose
                   \* classifier raised MergeConflict under a config with
                   \* notify_on_conflict and require_automerge_label
    labelReadded,  \* history: a user put the automerge label back
    labelRemoved,  \* history: the platform has confirmed a removal of the label
    args,          \* the arguments of a call of one of the module's functions
    result         \* what that call returned, or None while it has not

vars == <<event, inv, label, comments, ninv, conflictOnly, labelReadded,
          labelRemoved, args, result>>

\* one recorded collaborator call: create_notification, delete_branch,
\* delete_label (session.delete), create_comment (session.post), merge_branch
\* or merge_pull_request.  code is the status code answered (0 where the
\* code sees none); flag is the bool the method of PR made of it or, for
\* create_notification and delete_branch, whose result the code drops,
\* whether the collaborator carried the call out.
Call(op, arg, msg, code, flag) ==
    [op |-> op, arg |-> arg, msg |-> msg, code |-> code, flag |-> flag]

\* the frame of a task that is not running a call
Blank ==
    [op |-> "none", pc |-> "idle", merging |-> FALSE, snap |-> None,
     e |-> "none", msg |-> "none", sha |-> "none", branch |-> "none",
     lbl |-> "none", resp |-> "none", keep |-> FALSE, calls |-> <<>>,
     ret |-> [resp |-> "pending", event |-> None]]

Init ==
    /\ event = None
    /\ inv = [p \in Procs |-> Blank]
    /\ label \in BOOLEAN
    /\ comments = 0
    /\ ninv = 0
    /\ conflictOnly = TRUE
    /\ labelReadded = FALSE
    /\ labelRemoved = FALSE
    /\ args = [fn |-> "none"]
    /\ result = None

\* ------------------------------------------- synchronous code between awaits
\* Each operator below maps a frame (and the value self.event has at that
\* moment) to the frame at the next await or at the return.

\* `return resp, ev` of mergeability, or the plain return of set_status
Return(loc, resp, ev) ==
    [loc EXCEPT !.pc = "done", !.ret = [resp |-> resp, event |-> ev]]

\* AfterSetStatus with the `return` after the forks-cannot-be-updated status
\* missing, so that the clause runs on into its `if merging:` status
AfterSetStatusFallThrough(loc, ev) ==
    IF loc.op = "set_status"
    THEN Return(loc, "none", None)
    ELSE IF loc.msg = "forks cannot be updated" /\ loc.merging /\ ev # None
         THEN [loc EXCEPT !.msg = "attempting to merge PR (updating branch)",
                          !.resp = "NEEDS_UPDATE",
                          !.pc = "create_notification", !.sha = ev.latest_sha]
         ELSE Return(loc, loc.resp, IF loc.keep THEN ev ELSE None)

\* AfterSetStatus giving up the evaluation when the status post failed
AfterSetStatusAbortOnFailure(loc, ev) ==
    IF loc.op = "set_status"
    THEN Return(loc, "none", None)
    ELSE IF loc.calls # <<>> /\ ~loc.calls[Len(loc.calls)].flag
         THEN Return(loc, "NOT_MERGEABLE", None)
         ELSE Return(loc, loc.resp, IF loc.keep THEN ev ELSE None)

\* set_status returned to its caller: mergeability returns (resp, self.event)
\* or, after the invalid-configuration status, (resp, None)
AfterSetStatus(loc, ev) ==
    IF loc.op = "set_status"
    THEN Return(loc, "none", None)
    ELSE Return(loc, loc.resp, IF loc.keep THEN ev ELSE None)

\* set_status after its own get_event: if self.event is still None it logs
\* and returns, else it awaits create_notification with the event's latest_sha
SetStatusPost(loc, ev) ==
    IF ev = None
    THEN AfterSetStatus(loc, ev)
    ELSE [loc EXCEPT !.pc = "create_notification", !.sha = ev.latest_sha]

\* SetStatusEnter fetching an event whether or not one is cached
SetStatusEnterAlwaysFetch(loc, ev) ==
    [loc EXCEPT !.pc = "ss_get_default_branch"]

\* set_status from its entry to its first await
SetStatusEnter(loc, ev) ==
    IF ev = None
    THEN [loc EXCEPT !.pc = "ss_get_default_branch"]
    ELSE SetStatusPost(loc, ev)

\* SetStatus whose caller always returns `resp, self.event`
SetStatusKeepAlways(loc, ev, msg, resp, keep) ==
    SetStatusEnter([loc EXCEPT !.msg = msg, !.resp = resp, !.keep = TRUE], ev)

\* `await self.set_status(msg)` followed by `return resp, self.event`
\* (keep) or `return resp, None` (~keep)
SetStatus(loc, ev, msg, resp, keep) ==
    SetStatusEnter([loc EXCEPT !.msg = msg, !.resp = resp, !.keep = keep], ev)

\* CannotMerge without its set_status call
CannotMergeSilent(loc, ev) == Return(loc, "NOT_MERGEABLE", ev)

\* the `except (NotQueueable, MergeConflict, BranchMerged)` clause after its
\* delete_branch step
CannotMerge(loc, ev) ==
    SetStatus(loc, ev, "cannot merge", "NOT_MERGEABLE", TRUE)

\* BranchStep without the `isinstance(e, BranchMerged)` test
BranchStepAnyOutcome(loc, ev) ==
    IF ev.config.delete_branch_on_merge
    THEN [loc EXCEPT !.pc = "delete_branch", !.branch = ev.headRefName]
    ELSE CannotMerge(loc, ev)

\* the same clause after its notify step: the delete_branch_on_merge test
BranchStep(loc, ev) ==
    IF loc.e = "BranchMerged" /\ ev.config.delete_branch_on_merge
    THEN [loc EXCEPT !.pc = "delete_branch", !.branch = ev.headRefName]
    ELSE CannotMerge(loc, ev)

\* notify_pr_creator from its entry to its first await (delete_label) or its
\* early `return False`
NotifyPrCreator(loc, ev) ==
    IF ev = None THEN BranchStep(loc, ev)
    ELSE IF ~IsV1(ev.config) THEN BranchStep(loc, ev)
    ELSE IF ~ev.config.require_automerge_label THEN BranchStep(loc, ev)
    ELSE [loc EXCEPT !.pc = "delete_label", !.lbl = ev.config.automerge_label]

\* the notify_on_conflict test of the same clause
NotifyStep(loc, ev) ==
    IF loc.e = "MergeConflict" /\ ev.config.notify_on_conflict
    THEN NotifyPrCreator(loc, ev)
    ELSE BranchStep(loc, ev)

\* WaitingForChecks without the `if merging:` test
WaitingForChecksAlwaysPost(loc, ev) ==
    SetStatus(loc, ev, "attempting to merge PR (waiting for checks)", "WAIT", TRUE)

\* the `except WaitingForChecks` clause
WaitingForChecks(loc, ev) ==
    IF loc.merging
    THEN SetStatus(loc, ev, "attempting to merge PR (waiting for checks)", "WAIT", TRUE)
    ELSE Return(loc, "WAIT", ev)

\* NeedsBranchUpdate without the isCrossRepository test
NeedsBranchUpdateAnyRepo(loc, ev) ==
    IF loc.merging
    THEN SetStatus(loc, ev, "attempting to merge PR (updating branch)", "NEEDS_UPDATE", TRUE)
    ELSE Return(loc, "NEEDS_UPDATE", ev)

\* the `except NeedsBranchUpdate` clause
NeedsBranchUpdate(loc, ev) ==
    IF ev.isCrossRepository
    THEN SetStatus(loc, ev, "forks cannot be updated", "NOT_MERGEABLE", TRUE)
    ELSE IF loc.merging
         THEN SetStatus(loc, ev, "attempting to merge PR (updating branch)", "NEEDS_UPDATE", TRUE)
         ELSE Return(loc, "NEEDS_UPDATE", ev)

\* Classified with the MissingAppID clause returning OK
ClassifiedMissingAppIdOk(loc, ev) ==
    CASE loc.e \in {"success", "MissingAppID"} -> Return(loc, "OK", ev)
      [] loc.e = "MissingSkippableChecks" ->
            SetStatus(loc, ev, "not waiting for dont_wait_on_status_checks",
                      "SKIPPABLE_CHECKS", TRUE)
      [] loc.e \in {"NotQueueable", "MergeConflict", "BranchMerged"} ->
            NotifyStep(loc, ev)
      [] loc.e = "MergeBlocked" -> SetStatus(loc, ev, "blocked", "NOT_MERGEABLE", TRUE)
      [] loc.e = "MissingGithubMergeabilityState" -> Return(loc, "NEED_REFRESH", ev)
      [] loc.e = "WaitingForChecks" -> WaitingForChecks(loc, ev)
      [] loc.e = "NeedsBranchUpdate" -> NeedsBranchUpdate(loc, ev)

\* the try/except around mergeable(): one clause per outcome
Classified(loc, ev) ==
    CASE loc.e = "success" -> Return(loc, "OK", ev)
      [] loc.e = "MissingSkippableChecks" ->
            SetStatus(loc, ev, "not waiting for dont_wait_on_status_checks",
                      "SKIPPABLE_CHECKS", TRUE)
      [] loc.e \in {"NotQueueable", "MergeConflict", "BranchMerged"} ->
            NotifyStep(loc, ev)
      [] loc.e = "MergeBlocked" -> SetStatus(loc, ev, "blocked", "NOT_MERGEABLE", TRUE)
      [] loc.e = "MissingAppID" -> Return(loc, "NOT_MERGEABLE", ev)
      [] loc.e = "MissingGithubMergeabilityState" -> Return(loc, "NEED_REFRESH", ev)
      [] loc.e = "WaitingForChecks" -> WaitingForChecks(loc, ev)
      [] loc.e = "NeedsBranchUpdate" -> NeedsBranchUpdate(loc, ev)

\* BranchDeleted without the isCrossRepository test
BranchDeletedAnyRepo(ev) == ~ev.head_exists

\* the head test of mergeability: a same-repository PR whose head is gone
BranchDeleted(ev) == ~ev.isCrossRepository /\ ~ev.head_exists

\* Fetched without the head test
FetchedHeadUnchecked(loc, ev, e) ==
    IF ev = None THEN Return(loc, "NOT_MERGEABLE", None)
    ELSE IF ~IsV1(ev.config)
         THEN SetStatus(loc, ev, "Invalid configuration", "NOT_MERGEABLE", FALSE)
         ELSE Classified([loc EXCEPT !.e = e], ev)

\* Fetched working on the event that was cached on the PR object before the
\* call, if there was one, as set_status does, instead of the fetched one
FetchedUseCached(loc, ev, e) ==
    LET old == IF event # None THEN event ELSE ev IN
    IF ev = None THEN Return(loc, "NOT_MERGEABLE", None)
    ELSE IF BranchDeleted(old) THEN Return(loc, "NOT_MERGEABLE", None)
    ELSE IF ~IsV1(old.config)
         THEN SetStatus(loc, old, "Invalid configuration", "NOT_MERGEABLE", FALSE)
         ELSE Classified([loc EXCEPT !.e = e], old)

\* mergeability once `self.event = await self.get_event()` has assigned ev;
\* e is what the classifier does if the code reaches it
Fetched(loc, ev, e) ==
    IF ev = None THEN Return(loc, "NOT_MERGEABLE", None)
    ELSE IF BranchDeleted(ev) THEN Return(loc, "NOT_MERGEABLE", None)
    ELSE IF ~IsV1(ev.config)
         THEN SetStatus(loc, ev, "Invalid configuration", "NOT_MERGEABLE", FALSE)
         ELSE Classified([loc EXCEPT !.e = e], ev)

\* the value delete_label returns for the platform's status code
DeleteLabelResult(code) == code # DELETE_LABEL_CODE

\* the value create_comment returns for the platform's status code
CreateCommentResult(code) == code # CREATE_COMMENT_CODE

\* Python's bool as the result of update and merge
BoolResp(b) == IF b THEN "True" ELSE "False"

\* update after `event = await self.get_event()`: False without an event,
\* else it awaits client.merge_branch(head=baseRefName, base=headRefName)
Updating(loc, ev) ==
    IF ev = None
    THEN Return(loc, BoolResp(FALSE), None)
    ELSE [loc EXCEPT !.pc = "merge_branch", !.branch = ev.headRefName]

\* what update returns for the status code of merge_branch
UpdateResult(code) == ~(code > 300)

\* what merge returns for the status code of merge_pull_request
MergeResult(code) == ~(code > 300)

\* merge(event) from its entry: False for a config that is not V1, else it
\* awaits client.merge_pull_request
Merging(loc, ev) ==
    IF ~IsV1(ev.config)
    THEN Return(loc, BoolResp(FALSE), None)
    ELSE [loc EXCEPT !.pc = "merge_pull_request"]

\* get_event returned ev to the coroutine that awaited it: set_status (which
\* has just assigned self.event), update (which keeps it in a local) or
\* mergeability (which has assigned self.event)
GetEventReturned(loc, ev, e) ==
    IF loc.pc \in {"ss_get_default_branch", "ss_get_event_info"}
    THEN SetStatusPost(loc, ev)
    ELSE IF loc.op = "update"
         THEN Updating(loc, ev)
         ELSE Fetched([loc EXCEPT !.snap = ev], ev, e)

\* the caller of get_event stores its result in self.event (mergeability
\* and set_status do, update does not)
StoresEvent(loc) == loc.op # "update"

\* the call is a mergeability call that reached the MergeConflict clause under
\* a config with notify_on_conflict and require_automerge_label
IsConflictCall(loc) ==
    /\ loc.op = "mergeability"
    /\ loc.e = "MergeConflict"
    /\ loc.snap # None
    /\ IsV1(loc.snap.config)
    /\ loc.snap.config.notify_on_conflict
    /\ loc.snap.config.require_automerge_label

\* ----------------------------------------------------------------- actions

Frame(p) == inv[p]
SetFrame(p, loc) == inv' = [inv EXCEPT ![p] = loc]
Append1(loc, call) == [loc EXCEPT !.calls = Append(@, call)]

\* a task calls pr.mergeability(merging): the coroutine runs to its first
\* await, client.get_default_branch_name() inside get_event
CallMergeability(p, merging) ==
    /\ Frame(p).pc = "idle"
    /\ ninv < MaxInvocations
    /\ ninv' = ninv + 1
    /\ SetFrame(p, [Blank EXCEPT !.op = "mergeability",
                                 !.pc = "get_default_branch",
                                 !.merging = merging])
    /\ UNCHANGED <<event, label, comments, conflictOnly, labelReadded, labelRemoved>>
    /\ UNCHANGED <<args, result>>

\* a task calls pr.set_status(summary) itself
CallSetStatus(p) ==
    /\ Frame(p).pc = "idle"
    /\ ninv < MaxInvocations
    /\ ninv' = ninv + 1
    /\ SetFrame(p, SetStatus([Blank EXCEPT !.op = "set_status"], event,
                             "custom", "none", FALSE))
    /\ conflictOnly' = FALSE
    /\ UNCHANGED <<event, label, comments, labelReadded, labelRemoved>>
    /\ UNCHANGED <<args, result>>

\* get_event: client.get_default_branch_name() answers; on None get_event
\* returns None, which its caller assigns to self.event
GetDefaultBranchName(p) ==
    /\ Frame(p).pc \in {"get_default_branch", "ss_get_default_branch"}
    /\ \/ /\ event' = IF StoresEvent(Frame(p)) THEN None ELSE event
          /\ SetFrame(p, GetEventReturned(Frame(p), None, "none"))
          /\ conflictOnly' = FALSE
       \/ /\ SetFrame(p, [Frame(p) EXCEPT !.pc =
                            IF @ = "get_default_branch"
                            THEN "get_event_info" ELSE "ss_get_event_info"])
          /\ UNCHANGED <<event, conflictOnly>>
    /\ UNCHANGED <<label, comments, ninv, labelReadded, labelRemoved>>
    /\ UNCHANGED <<args, result>>

\* get_event: client.get_event_info() answers a snapshot or None; the caller
\* assigns it to self.event and runs on: mergeability through its early
\* exits and the classifier (outcome e) to its next await or its return
GetEventInfoFrom(p, answers, outcomes) ==
    /\ Frame(p).pc \in {"get_event_info", "ss_get_event_info"}
    /\ \E ev \in answers, e \in outcomes :
          LET loc == GetEventReturned(Frame(p), ev, e) IN
          /\ event' = IF StoresEvent(Frame(p)) THEN ev ELSE event
          /\ SetFrame(p, loc)
          /\ conflictOnly' = (conflictOnly /\ IsConflictCall(loc))
    /\ UNCHANGED <<label, comments, ninv, labelReadded, labelRemoved>>
    /\ UNCHANGED <<args, result>>

\* get_event_info with every snapshot and every classifier outcome
GetEventInfo(p) == GetEventInfoFrom(p, Snapshots \cup {None}, Outcomes)

\* delete_label: the platform answers the DELETE request.  It confirms a
\* removal (DELETE_LABEL_CODE) only of a label that is on the pull request,
\* and the label is gone exactly when it confirms.  notify_pr_creator then
\* returns False or goes on to create_comment.
DeleteLabel(p) ==
    /\ Frame(p).pc = "delete_label"
    /\ \E code \in StatusCodes :
          LET flag == DeleteLabelResult(code)
              loc == Append1(Frame(p),
                             Call("delete_label", Frame(p).lbl, "none", code, flag))
          IN
          /\ code = DELETE_LABEL_CODE => label
          /\ label' = (label /\ code # DELETE_LABEL_CODE)
          /\ labelRemoved' = (labelRemoved \/ code = DELETE_LABEL_CODE)
          /\ SetFrame(p, IF ~flag
                         THEN BranchStep(loc, event)
                         ELSE [loc EXCEPT !.pc = "create_comment"])
    /\ UNCHANGED <<event, comments, ninv, conflictOnly, labelReadded>>
    /\ UNCHANGED <<args, result>>

\* create_comment: the platform answers the POST request; a 2xx answer other
\* than 204 means the comment now exists.  notify_pr_creator returns the flag.
CreateComment(p) ==
    /\ Frame(p).pc = "create_comment"
    /\ \E code \in StatusCodes :
          LET flag == CreateCommentResult(code)
              loc == Append1(Frame(p),
                             Call("create_comment", Frame(p).lbl, "none", code, flag))
          IN
          /\ comments' = IF code \in {200, 201} THEN comments + 1 ELSE comments
          /\ SetFrame(p, BranchStep(loc, event))
    /\ UNCHANGED <<event, label, ninv, conflictOnly, labelReadded, labelRemoved>>
    /\ UNCHANGED <<args, result>>

\* client.delete_branch(branch) returns, having deleted the branch or not
DeleteBranch(p) ==
    /\ Frame(p).pc = "delete_branch"
    /\ \E ok \in BOOLEAN :
          SetFrame(p, CannotMerge(
              Append1(Frame(p),
                      Call("delete_branch", Frame(p).branch, "none", 0, ok)),
              event))
    /\ UNCHANGED <<event, label, comments, ninv, conflictOnly, labelReadded, labelRemoved>>
    /\ UNCHANGED <<args, result>>

\* client.create_notification(head_sha, message) returns, having posted the
\* status or not; set_status returns
CreateNotification(p) ==
    /\ Frame(p).pc = "create_notification"
    /\ \E ok \in BOOLEAN :
          SetFrame(p, AfterSetStatus(
              Append1(Frame(p),
                      Call("create_notification", Frame(p).sha, Frame(p).msg, 0, ok)),
              event))
    /\ UNCHANGED <<event, label, comments, ninv, conflictOnly, labelReadded, labelRemoved>>
    /\ UNCHANGED <<args, result>>

\* a task calls pr.update(): the coroutine runs to the first await of get_event
CallUpdate(p) ==
    /\ Frame(p).pc = "idle"
    /\ ninv < MaxInvocations
    /\ ninv' = ninv + 1
    /\ SetFrame(p, [Blank EXCEPT !.op = "update", !.pc = "get_default_branch"])
    /\ conflictOnly' = FALSE
    /\ UNCHANGED <<event, label, comments, labelReadded, labelRemoved>>
    /\ UNCHANGED <<args, result>>

\* client.merge_branch answers; update returns
MergeBranch(p) ==
    /\ Frame(p).pc = "merge_branch"
    /\ \E code \in MergeStatusCodes :
          SetFrame(p, Return(
              Append1(Frame(p), Call("merge_branch", Frame(p).branch, "none",
                                     code, UpdateResult(code))),
              BoolResp(UpdateResult(code)), None))
    /\ UNCHANGED <<event, label, comments, ninv, conflictOnly, labelReadded, labelRemoved>>
    /\ UNCHANGED <<args, result>>

\* a task calls pr.merge(ev) with a snapshot it holds
CallMerge(p, ev) ==
    /\ Frame(p).pc = "idle"
    /\ ninv < MaxInvocations
    /\ ninv' = ninv + 1
    /\ SetFrame(p, Merging([Blank EXCEPT !.op = "merge"], ev))
    /\ conflictOnly' = FALSE
    /\ UNCHANGED <<event, label, comments, labelReadded, labelRemoved>>
    /\ UNCHANGED <<args, result>>

\* client.merge_pull_request answers; merge returns
MergePullRequest(p) ==
    /\ Frame(p).pc = "merge_pull_request"
    /\ \E code \in MergeStatusCodes :
          SetFrame(p, Return(
              Append1(Frame(p), Call("merge_pull_request", "none", "none",
                                     code, MergeResult(code))),
              BoolResp(MergeResult(code)), None))
    /\ UNCHANGED <<event, label, comments, ninv, conflictOnly, labelReadded, labelRemoved>>
    /\ UNCHANGED <<args, result>>

\* the caller has taken the result of the call
Finish(p) ==
    /\ Frame(p).pc = "done"
    /\ SetFrame(p, Blank)
    /\ UNCHANGED <<event, label, comments, ninv, conflictOnly, labelReadded, labelRemoved>>
    /\ UNCHANGED <<args, result>>

\* a user puts the automerge label (back) on the pull request
AddLabel ==
    /\ ~label
    /\ label' = TRUE
    /\ labelReadded' = TRUE
    /\ UNCHANGED <<event, inv, comments, ninv, conflictOnly, labelRemoved>>
    /\ UNCHANGED <<args, result>>

\* no task is inside a call on the PR object
Quiet == \A q \in Procs : Frame(q).pc = "idle"

\* Calls on the PR object made one after the other: a call starts when no
\* other call is in flight.
Next ==
    \/ \E p \in Procs, merging \in BOOLEAN : Quiet /\ CallMergeability(p, merging)
    \/ \E p \in Procs : Quiet /\ CallSetStatus(p)
    \/ \E p \in Procs : Quiet /\ CallUpdate(p)
    \/ \E p \in Procs, ev \in Snapshots : Quiet /\ CallMerge(p, ev)
    \/ \E p \in Procs : MergeBranch(p)
    \/ \E p \in Procs : MergePullRequest(p)
    \/ \E p \in Procs : GetDefaultBranchName(p)
    \/ \E p \in Procs : GetEventInfo(p)
    \/ \E p \in Procs : DeleteLabel(p)
    \/ \E p \in Procs : CreateComment(p)
    \/ \E p \in Procs : DeleteBranch(p)
    \/ \E p \in Procs : CreateNotification(p)
    \/ \E p \in Procs : Finish(p)
    \/ AddLabel

Spec == Init /\ [][Next]_vars

\* ------------------------------------------------- interleaved calls
\* Two tasks may be inside calls on the same PR object at once: a coroutine
\* gives way at each await, and another call may then run on the same
\* object.  To keep the product of two frames small the snapshots and the
\* classifier outcomes are drawn from the cases with an await between the
\* fetch and the return.  update and merge neither read nor write self.event
\* and are left out.

\* same-repository snapshots with a head, a valid config and every option set
ConcSnapshots ==
    {s \in Snapshots :
        /\ ~s.isCrossRepository /\ s.head_exists
        /\ IsV1(s.config)
        /\ s.config.notify_on_conflict
        /\ s.config.require_automerge_label
        /\ s.config.delete_branch_on_merge}

ConcOutcomes == {"MergeConflict", "BranchMerged", "WaitingForChecks"}

GetEventInfoConc(p) == GetEventInfoFrom(p, ConcSnapshots \cup {None}, ConcOutcomes)

NextConc ==
    \/ \E p \in Procs, merging \in BOOLEAN : CallMergeability(p, merging)
    \/ \E p \in Procs : CallSetStatus(p)
    \/ \E p \in Procs : GetDefaultBranchName(p)
    \/ \E p \in Procs : GetEventInfoConc(p)
    \/ \E p \in Procs : DeleteLabel(p)
    \/ \E p \in Procs : CreateComment(p)
    \/ \E p \in Procs : DeleteBranch(p)
    \/ \E p \in Procs : CreateNotification(p)
    \/ \E p \in Procs : Finish(p)
    \/ AddLabel

SpecConc == Init /\ [][NextConc]_vars

\* ------------------------------------------------- two calls side by side
\* Calls made one after the other, as in Spec, but the frame of a call that
\* has returned may stay while the next call runs on the other task, so that
\* two calls can be compared.  The snapshots and outcomes are a subset, to
\* keep the product of two frames small.

\* same-repository snapshots with a head whose config is invalid or has
\* every option set
PairSnapshots ==
    {s \in Snapshots :
        /\ ~s.isCrossRepository /\ s.head_exists
        /\ IsV1(s.config) =>
              /\ s.config.notify_on_conflict
              /\ s.config.require_automerge_label
              /\ s.config.delete_branch_on_merge}

PairOutcomes == {"MergeConflict", "BranchMerged", "WaitingForChecks"}

GetEventInfoPair(p) == GetEventInfoFrom(p, PairSnapshots \cup {None}, PairOutcomes)

\* no task is between the start and the return of a call
NoneInFlight == \A q \in Procs : Frame(q).pc \in {"idle", "done"}

NextPair ==
    \/ \E p \in Procs, merging \in BOOLEAN : NoneInFlight /\ CallMergeability(p, merging)
    \/ \E p \in Procs : NoneInFlight /\ CallSetStatus(p)
    \/ \E p \in Procs : GetDefaultBranchName(p)
    \/ \E p \in Procs : GetEventInfoPair(p)
    \/ \E p \in Procs : DeleteLabel(p)
    \/ \E p \in Procs : CreateComment(p)
    \/ \E p \in Procs : DeleteBranch(p)
    \/ \E p \in Procs : CreateNotification(p)
    \/ \E p \in Procs : Finish(p)
    \/ AddLabel

SpecPair == Init /\ [][NextPair]_vars

\* ------------------------------------------------------------------ claims

\* a mergeability call of task p has returned
Returned(p) == inv[p].op = "mergeability" /\ inv[p].pc = "done"

\* the number of calls of collaborator operation op a frame has made
NumCalls(loc, op) ==
    Cardinality({i \in DOMAIN loc.calls : loc.calls[i].op = op})

\* the calls made, as the sequence of their operation names
OpsOf(loc) == [i \in DOMAIN loc.calls |-> loc.calls[i].op]

\* the call got a snapshot and went past the head test
PastHeadTest(loc) ==
    /\ loc.snap # None
    /\ (loc.snap.head_exists \/ loc.snap.isCrossRepository)

\* the call went past the early exits: the classifier is invoked
PastEarlyExits(loc) == PastHeadTest(loc) /\ IsV1(loc.snap.config)

\* the response column of the table of section 4.4
TableResponse(e, cross) ==
    CASE e = "success" -> "OK"
      [] e = "MissingSkippableChecks" -> "SKIPPABLE_CHECKS"
      [] e \in {"NotQueueable", "MergeConflict", "BranchMerged", "MergeBlocked",
                "MissingAppID"} -> "NOT_MERGEABLE"
      [] e = "MissingGithubMergeabilityState" -> "NEED_REFRESH"
      [] e = "WaitingForChecks" -> "WAIT"
      [] e = "NeedsBranchUpdate" -> IF cross THEN "NOT_MERGEABLE" ELSE "NEEDS_UPDATE"
      [] OTHER -> "undefined"

\* C1: a mergeability call that passed the early exits returns the response
\* the section 4.4 table gives for the classifier's outcome (whatever merging
\* is), and its second component is the snapshot the call fetched, not None.
C1_ResponseTable ==
    \A p \in Procs :
        (Returned(p) /\ PastEarlyExits(inv[p])) =>
            /\ inv[p].e \in Outcomes
            /\ inv[p].ret.resp = TableResponse(inv[p].e, inv[p].snap.isCrossRepository)
            /\ inv[p].ret.event = inv[p].snap
            /\ inv[p].ret.event # None

C1_Witness ==
    \E p \in Procs :
        /\ Returned(p) /\ PastEarlyExits(inv[p])
        /\ inv[p].e = "NeedsBranchUpdate"
        /\ inv[p].snap.isCrossRepository
        /\ inv[p].ret.resp = "NOT_MERGEABLE"

\* WaitingForChecks, or NeedsBranchUpdate on a same-repository PR
IsMergingOnlyCase(loc) ==
    /\ PastEarlyExits(loc)
    /\ \/ loc.e = "WaitingForChecks"
       \/ loc.e = "NeedsBranchUpdate" /\ ~loc.snap.isCrossRepository

\* C2: on WaitingForChecks, and on NeedsBranchUpdate of a same-repository PR,
\* the call makes exactly one create_notification call if merging and none if
\* not, and returns WAIT / NEEDS_UPDATE for either value of merging.
C2_StatusOnlyWhenMerging ==
    \A p \in Procs :
        (Returned(p) /\ IsMergingOnlyCase(inv[p])) =>
            /\ NumCalls(inv[p], "create_notification") = (IF inv[p].merging THEN 1 ELSE 0)
            /\ inv[p].ret.resp =
                  (IF inv[p].e = "WaitingForChecks" THEN "WAIT" ELSE "NEEDS_UPDATE")

C2_Witness ==
    \E p \in Procs :
        /\ Returned(p) /\ IsMergingOnlyCase(inv[p])
        /\ inv[p].e = "WaitingForChecks"
        /\ inv[p].merging
        /\ NumCalls(inv[p], "create_notification") = 1
        /\ inv[p].ret.resp = "WAIT"

\* the PR of the call is a cross-repository PR whose head is reported missing
IsForkWithoutHead(loc) ==
    /\ loc.snap # None
    /\ loc.snap.isCrossRepository
    /\ ~loc.snap.head_exists

\* the call returned (NOT_MERGEABLE, None) without invoking the classifier
ShortCircuited(loc) ==
    /\ loc.ret = [resp |-> "NOT_MERGEABLE", event |-> None]
    /\ loc.e = "none"

\* C3 as stated: for a cross-repository PR whose head is reported missing,
\* mergeability returns (NOT_MERGEABLE, None) through the head test,
\* without invoking the classifier.
C3_Original ==
    \A p \in Procs :
        (Returned(p) /\ IsForkWithoutHead(inv[p])) =>
            ShortCircuited(inv[p])

\* C3 amended: for a cross-repository PR whose head is reported missing the
\* head test does not end the call.  With a valid V1 config the classifier
\* is invoked and the call returns the response of the 4.4 table with the
\* fetched snapshot; with an invalid config it posts the one
\* invalid-configuration status and returns (NOT_MERGEABLE, None).
C3_ForkIsNotShortCircuited ==
    \A p \in Procs :
        (Returned(p) /\ IsForkWithoutHead(inv[p])) =>
            IF IsV1(inv[p].snap.config)
            THEN /\ inv[p].e \in Outcomes
                 /\ inv[p].ret.resp = TableResponse(inv[p].e, TRUE)
                 /\ inv[p].ret.event = inv[p].snap
            ELSE /\ ShortCircuited(inv[p])
                 /\ OpsOf(inv[p]) = <<"create_notification">>
                 /\ inv[p].calls[1].msg = "Invalid configuration"

C3_Witness ==
    \E p \in Procs :
        /\ Returned(p) /\ IsForkWithoutHead(inv[p])
        /\ inv[p].e = "success"
        /\ inv[p].ret.resp = "OK"
        /\ inv[p].ret.event = inv[p].snap

\* the call could not get a snapshot, or its PR is a same-repository PR whose
\* head ref no longer exists
IsEarlyExit(loc) ==
    \/ loc.snap = None
    \/ ~loc.snap.isCrossRepository /\ ~loc.snap.head_exists

\* C4: when no snapshot is obtained (default branch unresolved, or
\* get_event_info answers None), or the PR is same-repository and its head is
\* gone, mergeability returns (NOT_MERGEABLE, None), the classifier is not
\* invoked and no collaborator call with a side effect is made.
C4_EarlyExitsAreSilent ==
    \A p \in Procs :
        (Returned(p) /\ IsEarlyExit(inv[p])) =>
            /\ ShortCircuited(inv[p])
            /\ inv[p].calls = <<>>

C4_Witness ==
    \E p \in Procs :
        /\ Returned(p)
        /\ inv[p].snap # None
        /\ ~inv[p].snap.isCrossRepository /\ ~inv[p].snap.head_exists
        /\ IsV1(inv[p].snap.config)
        /\ ShortCircuited(inv[p])
        /\ inv[p].calls = <<>>

\* the call ended in a terminal (NOT_MERGEABLE) or transient outcome
IsTerminalOrTransient(loc) ==
    loc.ret.resp \in {"NOT_MERGEABLE", "NEED_REFRESH", "WAIT", "NEEDS_UPDATE"}

\* C5 as stated: every mergeability call that ends in NOT_MERGEABLE,
\* NEED_REFRESH, WAIT or NEEDS_UPDATE has made exactly one
\* create_notification call.
C5_Original ==
    \A p \in Procs :
        (Returned(p) /\ IsTerminalOrTransient(inv[p])) =>
            NumCalls(inv[p], "create_notification") = 1

\* the cases in which the code posts no status
IsSilentCase(loc) ==
    \/ IsEarlyExit(loc)
    \/ loc.e \in {"MissingAppID", "MissingGithubMergeabilityState"}
    \/ ~loc.merging /\ IsMergingOnlyCase(loc)

\* C5 amended: a mergeability call that ends in NOT_MERGEABLE, NEED_REFRESH,
\* WAIT or NEEDS_UPDATE has made exactly one create_notification call,
\* except that it has made none when it left through the snapshot or head
\* test, when the classifier raised MissingAppID or
\* MissingGithubMergeabilityState, or when merging is false and the
\* classifier raised WaitingForChecks or (same-repository) NeedsBranchUpdate.
C5_OneStatusUnlessSilent ==
    \A p \in Procs :
        (Returned(p) /\ IsTerminalOrTransient(inv[p])) =>
            NumCalls(inv[p], "create_notification") =
                (IF IsSilentCase(inv[p]) THEN 0 ELSE 1)

C5_Witness ==
    \E p \in Procs :
        /\ Returned(p) /\ IsTerminalOrTransient(inv[p])
        /\ inv[p].e = "BranchMerged"
        /\ ~IsSilentCase(inv[p])
        /\ NumCalls(inv[p], "create_notification") = 1

\* C6: at every moment of a mergeability call, whatever the snapshot, the
\* classifier outcome and merging, the call has made at most one
\* create_notification call.
C6_AtMostOneStatus ==
    \A p \in Procs :
        inv[p].op = "mergeability" => NumCalls(inv[p], "create_notification") <= 1

C6_Witness ==
    \E p \in Procs :
        /\ Returned(p)
        /\ inv[p].e = "NeedsBranchUpdate"
        /\ inv[p].snap.isCrossRepository
        /\ inv[p].merging
        /\ NumCalls(inv[p], "create_notification") = 1

\* the platform confirmed the label removal the call asked for
RemovalConfirmed(loc) ==
    \E i \in DOMAIN loc.calls :
        loc.calls[i].op = "delete_label" /\ loc.calls[i].code = DELETE_LABEL_CODE

\* the platform answered the call's label removal without confirming it
RemovalFailed(loc) ==
    \E i \in DOMAIN loc.calls :
        loc.calls[i].op = "delete_label" /\ loc.calls[i].code # DELETE_LABEL_CODE

\* C7: on MergeConflict under a config with notify_on_conflict and
\* require_automerge_label, when the platform confirms the label removal, the
\* call issues the label deletion, then exactly one comment creation, then
\* the status "cannot merge"; and a comment creation is never issued before
\* the label deletion of the same call.
C7_DeleteThenCommentThenStatus ==
    \A p \in Procs :
        /\ (Returned(p) /\ IsConflictCall(inv[p]) /\ RemovalConfirmed(inv[p])) =>
              /\ OpsOf(inv[p]) = <<"delete_label", "create_comment", "create_notification">>
              /\ inv[p].calls[3].msg = "cannot merge"
        /\ \A i \in DOMAIN inv[p].calls :
              inv[p].calls[i].op = "create_comment" =>
                  \E j \in 1..(i - 1) : inv[p].calls[j].op = "delete_label"

\* C8: in notify_pr_creator, if the label removal fails (the platform does
\* not confirm it) or the policy does not require an automerge label, no
\* comment is created: create_comment is not called in that call.
C8_NoCommentWithoutRemoval ==
    \A p \in Procs :
        (\/ RemovalFailed(inv[p])
         \/ PastEarlyExits(inv[p]) /\ ~inv[p].snap.config.require_automerge_label) =>
            NumCalls(inv[p], "create_comment") = 0

\* C9: delete_label returns true exactly when the platform's status code is
\* 204, and create_comment returns true exactly when it is 200.
C9_SuccessFlagIsExpectedCode ==
    \A p \in Procs : \A i \in DOMAIN inv[p].calls :
        /\ inv[p].calls[i].op = "delete_label" =>
              (inv[p].calls[i].flag <=> inv[p].calls[i].code = 204)
        /\ inv[p].calls[i].op = "create_comment" =>
              (inv[p].calls[i].flag <=> inv[p].calls[i].code = 200)

\* C10: across mergeability calls that all meet MergeConflict (with
\* notify_on_conflict and require_automerge_label), the label not being
\* re-added, at most one conflict comment is created in total, and once a
\* call has removed the label only that call may create a comment: later
\* calls create none.
C10_AtMostOneConflictComment ==
    [][(conflictOnly /\ ~labelReadded) =>
          /\ comments' <= 1
          /\ (labelRemoved /\ comments' > comments) =>
                \E p \in Procs : inv'[p] # inv[p] /\ RemovalConfirmed(inv[p])]_vars

\* C11: also when calls on the same PR object interleave at their awaits,
\* every side effect of a mergeability call (the head SHA of its status post,
\* the branch of its delete_branch, the label of its notify) and the snapshot
\* it returns come from the snapshot that this call fetched at its start.
C11_OwnSnapshotOnly ==
    \A p \in Procs :
        inv[p].op = "mergeability" =>
            /\ \A i \in DOMAIN inv[p].calls :
                  /\ inv[p].snap # None
                  /\ inv[p].calls[i].op = "create_notification" =>
                        inv[p].calls[i].arg = inv[p].snap.latest_sha
                  /\ inv[p].calls[i].op = "delete_branch" =>
                        inv[p].calls[i].arg = inv[p].snap.headRefName
                  /\ inv[p].calls[i].op \in {"delete_label", "create_comment"} =>
                        inv[p].calls[i].arg = inv[p].snap.config.automerge_label
            /\ (inv[p].pc = "done" /\ inv[p].ret.event # None) =>
                  inv[p].ret.event = inv[p].snap

\* C12: update returns False whenever merge_branch answers a status code
\* >= 300 and merge returns False whenever merge_pull_request does; each
\* returns True only for a status code below 300.
C12_FailureFrom300 ==
    \A p \in Procs : \A i \in DOMAIN inv[p].calls :
        (/\ inv[p].pc = "done"
         /\ inv[p].calls[i].op \in {"merge_branch", "merge_pull_request"}) =>
            (inv[p].ret.resp = "True" <=> inv[p].calls[i].code < 300)

\* the collaborator did not carry the call out: the status post or the branch
\* deletion failed, the label removal was not confirmed, the comment was not
\* created
CallFailed(c) ==
    CASE c.op = "delete_label" -> c.code # DELETE_LABEL_CODE
      [] c.op = "create_comment" -> c.code \notin {200, 201}
      [] c.op \in {"create_notification", "delete_branch"} -> ~c.flag
      [] OTHER -> FALSE

SomeCallFailed(loc) == \E i \in DOMAIN loc.calls : CallFailed(loc.calls[i])

SameInputs(p, q) ==
    /\ Returned(p) /\ Returned(q)
    /\ inv[p].snap = inv[q].snap
    /\ inv[p].e = inv[q].e
    /\ inv[p].merging = inv[q].merging

\* the side-effect calls of a frame as issued: operation, argument, message
Issued(loc) ==
    [i \in DOMAIN loc.calls |->
        <<loc.calls[i].op, loc.calls[i].arg, loc.calls[i].msg>>]

\* the status codes the platform answered the frame's label removals with
LabelAnswers(loc) ==
    {loc.calls[i].code : i \in {j \in DOMAIN loc.calls : loc.calls[j].op = "delete_label"}}

\* C14 as stated: two mergeability calls with the same fetched snapshot, the
\* same classifier outcome and the same merging flag return the same
\* (response, snapshot) pair and issue the same sequence of side-effect
\* calls, whatever event was cached on the PR object before each.
C14_Original ==
    \A p, q \in Procs :
        SameInputs(p, q) =>
            /\ inv[p].ret = inv[q].ret
            /\ Issued(inv[p]) = Issued(inv[q])

\* C14 amended: two such calls return the same (response, snapshot) pair,
\* whatever event was cached before each, and issue the same sequence of
\* side-effect calls provided the platform answers their label removals
\* with the same status code.
C14_SameInputsSameRun ==
    \A p, q \in Procs :
        SameInputs(p, q) =>
            /\ inv[p].ret = inv[q].ret
            /\ LabelAnswers(inv[p]) = LabelAnswers(inv[q]) =>
                  Issued(inv[p]) = Issued(inv[q])

\* two calls with the same inputs, the second started with the snapshot of
\* the first cached on the PR object, both having removed-label answers alike
C14_Witness ==
    \E p, q \in Procs :
        /\ p # q
        /\ SameInputs(p, q)
        /\ inv[p].e = "MergeConflict"
        /\ LabelAnswers(inv[p]) = {404}
        /\ LabelAnswers(inv[q]) = {404}
        /\ Issued(inv[p]) = Issued(inv[q])
        /\ Len(inv[p].calls) = 3


\* the positions in a frame's calls of the calls of operation op
CallsOf(loc, op) == {i \in DOMAIN loc.calls : loc.calls[i].op = op}

\* the classifier raised one of the conditions of the cannot-merge clause
IsCannotMergeCase(loc) ==
    /\ PastEarlyExits(loc)
    /\ loc.e \in {"NotQueueable", "MergeConflict", "BranchMerged"}

\* the clause has to delete the branch: BranchMerged and the option set
MustDeleteBranch(loc) ==
    /\ PastEarlyExits(loc)
    /\ loc.e = "BranchMerged"
    /\ loc.snap.config.delete_branch_on_merge

\* C15: a mergeability call calls delete_branch if and only if the
\* classifier raised BranchMerged and delete_branch_on_merge is set; then
\* once, with the snapshot's head ref name, before the status post; and for
\* NotQueueable, MergeConflict and BranchMerged the status "cannot merge" is
\* posted whatever the notify or branch-deletion step did or returned.
C15_DeleteBranchIffMergedAndSet ==
    \A p \in Procs :
        inv[p].op = "mergeability" =>
            LET loc == inv[p] IN
            /\ Cardinality(CallsOf(loc, "delete_branch")) <= 1
            /\ \A i \in CallsOf(loc, "delete_branch") :
                  /\ MustDeleteBranch(loc)
                  /\ loc.calls[i].arg = loc.snap.headRefName
                  /\ \A j \in CallsOf(loc, "create_notification") : i < j
            /\ (Returned(p) /\ MustDeleteBranch(loc)) =>
                  CallsOf(loc, "delete_branch") # {}
            /\ (Returned(p) /\ IsCannotMergeCase(loc)) =>
                  /\ CallsOf(loc, "create_notification") = {Len(loc.calls)}
                  /\ loc.calls[Len(loc.calls)].msg = "cannot merge"
                  /\ loc.calls[Len(loc.calls)].arg = loc.snap.latest_sha

\* a BranchMerged call whose branch deletion failed and which then posted
\* the cannot-merge status
C15_Witness ==
    \E p \in Procs :
        /\ Returned(p)
        /\ inv[p].e = "BranchMerged"
        /\ OpsOf(inv[p]) = <<"delete_branch", "create_notification">>
        /\ ~inv[p].calls[1].flag
        /\ inv[p].calls[1].arg = inv[p].snap.headRefName
        /\ inv[p].calls[2].msg = "cannot merge"

\* the call fetched a snapshot that passed the head test and whose config is
\* not a V1 document
IsInvalidConfigCase(loc) == PastHeadTest(loc) /\ ~IsV1(loc.snap.config)

\* C16: when the fetched snapshot's config is not a valid V1 document (and
\* the head exists or the PR is cross-repository), mergeability posts exactly
\* one status, "Invalid configuration", does not invoke the classifier,
\* issues no other side effect and returns (NOT_MERGEABLE, none).
C16_InvalidConfigOneStatus ==
    \A p \in Procs :
        (inv[p].op = "mergeability" /\ IsInvalidConfigCase(inv[p])) =>
            LET loc == inv[p] IN
            /\ loc.e = "none"
            /\ loc.msg = "Invalid configuration"
            /\ loc.pc \in {"create_notification", "done"}
            /\ loc.pc = "create_notification" => loc.calls = <<>>
            /\ loc.pc = "done" =>
                  /\ OpsOf(loc) = <<"create_notification">>
                  /\ loc.calls[1].msg = "Invalid configuration"
                  /\ loc.calls[1].arg = loc.snap.latest_sha
                  /\ loc.ret = [resp |-> "NOT_MERGEABLE", event |-> None]

\* a fork without head and with an invalid config: one status, whose post
\* failed, and the return (NOT_MERGEABLE, none)
C16_Witness ==
    \E p \in Procs :
        /\ Returned(p)
        /\ IsInvalidConfigCase(inv[p])
        /\ inv[p].snap.isCrossRepository /\ ~inv[p].snap.head_exists
        /\ Len(inv[p].calls) = 1
        /\ ~inv[p].calls[1].flag
        /\ inv[p].ret.event = None

\* C20: mergeability returns OK only if in that call a snapshot was fetched,
\* the PR is cross-repository or its head exists, the config is a valid V1
\* document and the classifier, invoked on that snapshot, raised nothing; a
\* call that returns OK has issued no side-effect call.
C20_OkOnlyAfterCleanClassification ==
    \A p \in Procs :
        (Returned(p) /\ inv[p].ret.resp = "OK") =>
            /\ inv[p].snap # None
            /\ PastEarlyExits(inv[p])
            /\ inv[p].e = "success"
            /\ inv[p].ret.event = inv[p].snap
            /\ inv[p].calls = <<>>

\* a merging call on a same-repository PR whose head exists returns OK
C20_Witness ==
    \E p \in Procs :
        /\ Returned(p)
        /\ inv[p].ret.resp = "OK"
        /\ inv[p].merging
        /\ ~inv[p].snap.isCrossRepository /\ inv[p].snap.head_exists
        /\ inv[p].e = "success"

\* task p runs a set_status call made by a caller of the PR object
InSetStatus(p) == inv[p].op = "set_status"

\* the set_status call of task p is inside its own get_event
Fetching(p) == inv[p].pc \in {"ss_get_default_branch", "ss_get_event_info"}

\* C19: set_status calls create_notification only when a snapshot is
\* available: it fetches only while none is cached; with one cached (from
\* before, or by its own fetch) it posts with that snapshot's latest sha; if
\* its fetch yields none it makes no create_notification call and returns.
C19_StatusNeedsSnapshot ==
    \A p \in Procs :
        InSetStatus(p) =>
            /\ inv[p].pc \in {"ss_get_default_branch", "ss_get_event_info",
                              "create_notification", "done"}
            /\ Fetching(p) => (event = None /\ inv[p].calls = <<>>)
            /\ inv[p].pc = "create_notification" =>
                  /\ event # None
                  /\ inv[p].sha = event.latest_sha
                  /\ inv[p].calls = <<>>
            /\ inv[p].pc = "done" =>
                  IF event = None
                  THEN inv[p].calls = <<>>
                  ELSE /\ OpsOf(inv[p]) = <<"create_notification">>
                       /\ inv[p].calls[1].arg = event.latest_sha
                       /\ inv[p].calls[1].msg = "custom"

\* a set_status call that found no event cached, fetched none and returned
\* without a create_notification call
C19_Witness ==
    \E p \in Procs :
        /\ InSetStatus(p)
        /\ inv[p].pc = "done"
        /\ event = None
        /\ inv[p].calls = <<>>

\* ------------------------------------------- the functions of the module
\* strip_html_comments_from_markdown, get_body_content and get_merge_body
\* take no PR object.  A string is a sequence of one-character strings and
\* is indexed from 0 as in the code.

\* no call on a PR object is made in the runs that apply the functions
NoPR ==
    /\ event = None
    /\ inv = [p \in Procs |-> Blank]
    /\ label = FALSE
    /\ comments = 0
    /\ ninv = 0
    /\ conflictOnly = TRUE
    /\ labelReadded = FALSE
    /\ labelRemoved = FALSE

\* s[i]
At(s, i) == s[i + 1]

\* s[a:b] for 0 <= a: the end is cut to the length, an empty range is ""
Slice(s, a, b) ==
    LET hi == IF b > Len(s) THEN Len(s) ELSE b
    IN  IF a >= hi THEN <<>> ELSE SubSeq(s, a + 1, hi)

\* s.find(ch, i)
Find(s, ch, i) ==
    LET hits == {j \in i..(Len(s) - 1) : At(s, j) = ch}
    IN  IF hits = {} THEN -1 ELSE CHOOSE j \in hits : \A k \in hits : j <= k

\* raw_message.replace("\r", "")
RemoveCR(s) == SelectSeq(s, LAMBDA c : c # "\r")

\* the pieces texts are made of: a letter, a line feed, a carriage return,
\* a tag, the start and the end of a comment
Pieces ==
    {<<"a">>, <<"\n">>, <<"\r">>, <<"<", "p", ">">>,
     <<"<", "!", "-", "-">>, <<"-", "-", ">">>}

\* the texts made of at most k pieces
RECURSIVE Texts(_)
Texts(k) ==
    IF k = 0 THEN {<<>>}
    ELSE LET shorter == Texts(k - 1)
         IN  shorter \cup {t \o pc : t \in shorter, pc \in Pieces}

IsSpace(c) == c \in {" ", "\t", "\n", "\r", "\f"}

IsLetter(c) == c \in {"a", "p"}

\* HTMLParser.updatepos(i, j): the new value of self.offset, the column of
\* position j in its line
UpdatePos(raw, offset, i, j) ==
    IF i >= j THEN offset
    ELSE LET nl == {k \in i..(j - 1) : At(raw, k) = "\n"}
         IN  IF nl # {}
             THEN j - ((CHOOSE k \in nl : \A m \in nl : m <= k) + 1)
             ELSE offset + j - i

\* the first match at or after i of the comment end `--`, white space, `>`:
\* its start and its end, or start -1
CommentClose(raw, i) ==
    LET n == Len(raw)
        Closes(j) ==
            /\ j + 1 < n /\ At(raw, j) = "-" /\ At(raw, j + 1) = "-"
            /\ \E k \in (j + 2)..(n - 1) :
                  /\ At(raw, k) = ">"
                  /\ \A m \in (j + 2)..(k - 1) : IsSpace(At(raw, m))
        starts == {j \in i..(n - 1) : Closes(j)}
        start == CHOOSE j \in starts : \A k \in starts : j <= k
    IN  IF starts = {} THEN [start |-> -1, end |-> -1]
        ELSE [start |-> start, end |-> Find(raw, ">", start + 2) + 1]

\* HTMLParser.goahead from position i: the comment tokens of raw in order,
\* each with the text between its delimiters (tag), the value self.offset
\* has when handle_comment is called for it, and its place in raw (at, end)
RECURSIVE GoAhead(_, _, _, _)
GoAhead(raw, i, offset, tokens) ==
    LET n == Len(raw)
        lt == Find(raw, "<", i)
        j == IF lt < 0 THEN n ELSE lt
        off == UpdatePos(raw, offset, i, j)
    IN  IF j = n THEN tokens
        ELSE IF j + 1 < n /\ IsLetter(At(raw, j + 1))
        THEN LET gt == Find(raw, ">", j)
             IN  IF gt < 0 THEN tokens
                 ELSE GoAhead(raw, gt + 1, UpdatePos(raw, off, j, gt + 1), tokens)
        ELSE IF Slice(raw, j, j + 4) = <<"<", "!", "-", "-">>
        THEN LET close == CommentClose(raw, j + 4)
             IN  IF close.start < 0 THEN tokens
                 ELSE GoAhead(raw, close.end,
                              UpdatePos(raw, off, j, close.end),
                              Append(tokens,
                                     [tag |-> Slice(raw, j + 4, close.start),
                                      offset |-> off,
                                      at |-> j, end |-> close.end]))
        ELSE IF j + 1 < n
        THEN GoAhead(raw, j + 1, UpdatePos(raw, off, j, j + 1), tokens)
        ELSE tokens

\* CommentHTMLParser.handle_comment: the span it appends to self.comments
handle_comment(offset, tag) ==
    LET start_token_len == Len(<<"<", "!", "-", "-">>)
        end_token_len == Len(<<"-", "-", ">">>)
        tag_len == Len(tag)
        end == start_token_len + tag_len + end_token_len
    IN  <<offset, end + offset>>

\* html_parser.feed(html_text) on the reset parser: html_parser.comments
Feed(html_text) ==
    LET tokens == GoAhead(html_text, 0, 0, <<>>)
    IN  [k \in DOMAIN tokens |-> handle_comment(tokens[k].offset, tokens[k].tag)]

\* the places of the comment tokens of html_text: from the `<` of each to
\* its closing `>`
CommentPlaces(html_text) ==
    LET tokens == GoAhead(html_text, 0, 0, <<>>)
    IN  [k \in DOMAIN tokens |-> <<tokens[k].at, tokens[k].end>>]

RECURSIVE Concat(_)
Concat(ss) == IF ss = <<>> THEN <<>> ELSE Head(ss) \o Concat(Tail(ss))

\* message[html_start:html_end] for the k-th HTML range
HtmlText(message, html_node_positions, k) ==
    Slice(message, html_node_positions[k][1], html_node_positions[k][2])

\* the loop over html_node_positions, found[k] being the spans found in the
\* k-th HTML range: each span moved by the start of its range
CommentLocations(html_node_positions, found) ==
    Concat([k \in DOMAIN html_node_positions |->
        LET html_start == html_node_positions[k][1]
        IN  [m \in DOMAIN found[k] |->
                <<html_start + found[k][m][1], html_start + found[k][m][2]>>]])

\* the loop over reversed(comment_locations), from the k-th location down
RECURSIVE Cut(_, _, _)
Cut(new_message, comment_locations, k) ==
    IF k = 0 THEN new_message
    ELSE Cut(Slice(new_message, 0, comment_locations[k][1])
                \o Slice(new_message, comment_locations[k][2], Len(new_message)),
             comment_locations, k - 1)

\* strip_html_comments_from_markdown, given what find_html_positions
\* answers for the message
strip_html_comments_from_markdown(raw_message, html_node_positions) ==
    LET message == RemoveCR(raw_message)
        comment_locations ==
            CommentLocations(html_node_positions,
                [k \in DOMAIN html_node_positions |->
                    Feed(HtmlText(message, html_node_positions, k))])
    IN  Cut(message, comment_locations, Len(comment_locations))

\* find_html_positions(message), an outside package: the lists of at most
\* MaxRanges ascending ranges that do not overlap, each either an HTML block
\* (from a `<` at the start of a line to the end of a line) or one inline
\* tag or comment
HtmlPositions(message) ==
    LET n == Len(message)
        blockStarts == {a \in 0..(n - 1) :
                          At(message, a) = "<" /\ (a = 0 \/ At(message, a - 1) = "\n")}
        blockEnds == {n} \cup {b \in 1..n : At(message, b - 1) = "\n"}
        blocks == {<<a, b>> : a \in blockStarts, b \in blockEnds}
        inlineEnd(a) ==
            IF Slice(message, a, a + 4) = <<"<", "!", "-", "-">>
            THEN CommentClose(message, a + 4).end
            ELSE Find(message, ">", a) + 1
        inlines == {<<a, inlineEnd(a)>> : a \in {c \in 0..(n - 1) : At(message, c) = "<"}}
        ranges == {r \in blocks \cup inlines : r[1] < r[2]}
    IN  {rs \in UNION {[1..m -> ranges] : m \in 0..MaxRanges} :
            \A k \in 1..(Len(rs) - 1) : rs[k][2] <= rs[k + 1][1]}

\* a text and an answer of find_html_positions for it
InitStrip ==
    /\ NoPR
    /\ \E raw \in Texts(MaxPieces) :
          \E pos \in HtmlPositions(RemoveCR(raw)) :
              args = [fn |-> "strip_html_comments_from_markdown",
                      raw_message |-> raw, html_positions |-> pos]
    /\ result = None

\* strip_html_comments_from_markdown returns
StripReturns ==
    /\ args.fn = "strip_html_comments_from_markdown"
    /\ result = None
    /\ result' = [value |-> strip_html_comments_from_markdown(
                                args.raw_message, args.html_positions)]
    /\ UNCHANGED <<event, inv, label, comments, ninv, conflictOnly,
                   labelReadded, labelRemoved, args>>

NextStrip == StripReturns

SpecStrip == InitStrip /\ [][NextStrip]_vars

\* the message with the places of the comments of its HTML ranges cut out
WithoutComments(raw_message, html_node_positions) ==
    LET message == RemoveCR(raw_message)
        places ==
            CommentLocations(html_node_positions,
                [k \in DOMAIN html_node_positions |->
                    CommentPlaces(HtmlText(message, html_node_positions, k))])
    IN  Cut(message, places, Len(places))

\* C18: the output of strip_html_comments_from_markdown is the input without
\* its carriage returns and without exactly the characters of the HTML
\* comments found inside its HTML ranges: the span recorded for a comment
\* covers that comment and nothing else.
C18_OnlyCommentsRemoved ==
    (args.fn = "strip_html_comments_from_markdown" /\ result # None) =>
        result.value = WithoutComments(args.raw_message, args.html_positions)

\* ---------------------------------------------------------- get_merge_body

\* get_body_content; html_positions is what find_html_positions answers for
\* the body without its carriage returns.  Any other body_type raises.
get_body_content(body_type, strip_html_comments, pull_request, html_positions) ==
    CASE body_type = "markdown" ->
            IF strip_html_comments
            THEN strip_html_comments_from_markdown(pull_request.body, html_positions)
            ELSE pull_request.body
      [] body_type = "plain_text" -> pull_request.bodyText
      [] body_type = "html" -> pull_request.bodyHTML

EMPTY_STRING == <<>>

\* merge_body.update(dict(key=value)), and merge_body[key] = value
Update(merge_body, key, value) ==
    [k \in DOMAIN merge_body \cup {key} |->
        IF k = key THEN value ELSE merge_body[k]]

\* merge_body.get(key) taken as a condition: the key is there and its value
\* is not the empty string
Truthy(merge_body, key) == key \in DOMAIN merge_body /\ merge_body[key] # <<>>

Digits == <<"0", "1", "2", "3", "4", "5", "6", "7", "8", "9">>

\* str(n) of a natural number
RECURSIVE Str(_)
Str(n) ==
    IF n < 10 THEN <<Digits[n + 1]>>
    ELSE Str(n \div 10) \o <<Digits[(n % 10) + 1]>>

\* f" (#{number})"
NumberSuffix(number) == <<" ", "(", "#">> \o Str(number) \o <<")">>

\* get_merge_body: the dict it returns, as a function of its keys
get_merge_body(config, pull_request, html_positions) ==
    LET d1 == [k \in {"merge_method"} |-> config.method]
        d2 == IF config.body = "pull_request_body"
              THEN Update(d1, "commit_message",
                          get_body_content(config.body_type,
                                           config.strip_html_comments,
                                           pull_request, html_positions))
              ELSE d1
        d3 == IF config.body = "empty"
              THEN Update(d2, "commit_message", EMPTY_STRING)
              ELSE d2
        d4 == IF config.title = "pull_request_title"
              THEN Update(d3, "commit_title", pull_request.title)
              ELSE d3
    IN  IF config.include_pr_number /\ Truthy(d4, "commit_title")
        THEN Update(d4, "commit_title",
                    d4["commit_title"] \o NumberSuffix(pull_request.number))
        ELSE d4

\* config.merge.method and config.merge.message of a V1 config
MessageConfigs ==
    [method : {"merge", "squash"},
     body : {"pull_request_body", "empty", "github_default"},
     body_type : {"markdown", "plain_text", "html"},
     strip_html_comments : BOOLEAN,
     title : {"pull_request_title", "github_default"},
     include_pr_number : BOOLEAN]

\* the titles of at most k characters
RECURSIVE Titles(_)
Titles(k) ==
    IF k = 0 THEN {<<>>}
    ELSE LET shorter == Titles(k - 1)
         IN  shorter \cup {t \o <<c>> : t \in shorter, c \in {"a", " "}}

\* the body of the pull request in its three forms; the markdown body is
\* plain, or holds a comment
PullRequests ==
    [title : Titles(MaxTitleLen),
     number : 1..MaxNumber,
     body : {<<"a">>, <<"a", "<", "!", "-", "-", "a", "-", "-", ">">>},
     bodyText : {<<"t">>},
     bodyHTML : {<<"h">>}]

InitMergeBody ==
    /\ NoPR
    /\ \E config \in MessageConfigs, pull_request \in PullRequests :
          \E pos \in HtmlPositions(RemoveCR(pull_request.body)) :
              args = [fn |-> "get_merge_body", config |-> config,
                      pull_request |-> pull_request, html_positions |-> pos]
    /\ result = None

\* get_merge_body returns
MergeBodyReturns ==
    /\ args.fn = "get_merge_body"
    /\ result = None
    /\ result' = [value |-> get_merge_body(args.config, args.pull_request,
                                           args.html_positions)]
    /\ UNCHANGED <<event, inv, label, comments, ninv, conflictOnly,
                   labelReadded, labelRemoved, args>>

NextMergeBody == MergeBodyReturns

SpecMergeBody == InitMergeBody /\ [][NextMergeBody]_vars

\* C17: whenever include_pr_number is enabled and a commit_title was set
\* (title style pull_request_title), the commit_title of the payload is the
\* PR title followed by " (#<number>)" once; when no commit_title was set the
\* payload has no commit_title key.
C17_TitleGetsNumberOnce ==
    (args.fn = "get_merge_body" /\ result # None) =>
        LET merge_body == result.value
            config == args.config
            pull_request == args.pull_request
        IN  /\ (config.include_pr_number /\ config.title = "pull_request_title") =>
                  /\ "commit_title" \in DOMAIN merge_body
                  /\ merge_body["commit_title"] =
                        pull_request.title \o NumberSuffix(pull_request.number)
            /\ config.title # "pull_request_title" =>
                  "commit_title" \notin DOMAIN merge_body
====
